---- MODULE Spec2Model ----
(***************************************************************************)
(* Model of the sell-item form (src/src/components/SellItem.jsx) and of    *)
(* the route guard (src/src/components/PrivateRoute.jsx).                  *)
(*                                                                         *)
(* Text values are sequences of one-character strings, so that trim() and  *)
(* the regular expressions of the source are computed character by         *)
(* character.                                                              *)
(***************************************************************************)
EXTENDS Integers, Sequences, FiniteSets, TLC

VARIABLES
    \* ---- SellItem.jsx: useState slots
    selectedFile, selectedCondition, title, description, price, location,
    name, email, selectedCategory, isEditingName, isEditingEmail,
    titleError, descriptionError, priceError, locationError,
    conditionError, categoryError, nameError, emailError,
    \* ---- SellItem.jsx: environment of the component
    mounted,        \* the form is on screen and receives user events
    lookups,        \* profile lookups (getDoc) started by the auth callback and not yet settled
    subs,           \* publish sequences started by handleSubmit, in start order
    clock,          \* last value returned by Date.now()
    assets,         \* keys of the objects the blob store holds
    records,        \* documents of the "products" collection, in creation order
    navigations,    \* number of navigate('./ItemPostedPage') calls
    alerts,         \* alert() calls so far, as <<publish sequence (0: the handler itself), message>>
    \* ---- PrivateRoute.jsx
    loading, user,  \* useState slots
    subscribed,     \* the onAuthStateChanged subscription is active
    delivered       \* history: identities the observer has delivered to the gate

formVars == <<selectedFile, selectedCondition, title, description, price, location,
              name, email, selectedCategory, isEditingName, isEditingEmail,
              titleError, descriptionError, priceError, locationError,
              conditionError, categoryError, nameError, emailError,
              mounted, lookups, subs, clock, assets, records, navigations, alerts>>

gateVars == <<loading, user, subscribed, delivered>>

vars == <<formVars, gateVars>>

draftVars == <<selectedFile, selectedCondition, title, description, price, location,
               name, email, selectedCategory>>

fieldErrorVars == <<titleError, descriptionError, priceError, locationError,
                    conditionError, categoryError>>

errorVars == <<fieldErrorVars, nameError, emailError>>

(***************************************************************************)
(* Bounds                                                                  *)
(***************************************************************************)
MaxSubs == 1          \* publish sequences per behaviour
MaxClock == 1         \* Date.now() ranges over 0..MaxClock
MaxLookups == 1       \* profile lookups in flight
MaxPriceLen == 3      \* length of the enumerated price strings
MaxDeliveries == 4    \* auth-observer callbacks delivered to the gate
MaxRace == 2          \* publish sequences started on one draft

(***************************************************************************)
(* Characters and strings                                                  *)
(***************************************************************************)
Digits == {"0", "1", "2", "3", "4", "5", "6", "7", "8", "9"}

DigitVal(c) ==
    CASE c = "0" -> 0 [] c = "1" -> 1 [] c = "2" -> 2 [] c = "3" -> 3 [] c = "4" -> 4
      [] c = "5" -> 5 [] c = "6" -> 6 [] c = "7" -> 7 [] c = "8" -> 8 [] c = "9" -> 9

Letters == {"a", "b", "c", "e", "o", "m", "u", "G", "s", "t", "A", "l", "x"}

IsSpace(c) == c = " "

RECURSIVE TrimStart(_)
TrimStart(s) ==
    IF s = <<>> THEN s
    ELSE IF IsSpace(Head(s)) THEN TrimStart(Tail(s)) ELSE s

RECURSIVE TrimEnd(_)
TrimEnd(s) ==
    IF s = <<>> THEN s
    ELSE IF IsSpace(s[Len(s)]) THEN TrimEnd(SubSeq(s, 1, Len(s) - 1)) ELSE s

\* String.prototype.trim
Trim(s) == TrimEnd(TrimStart(s))

\* JavaScript truthiness of a string
Truthy(s) == s # <<>>

(***************************************************************************)
(* Price validation: SellItem.jsx line 170                                 *)
(***************************************************************************)
\* One step of the automaton of /^\d+(\.\d{1,2})?$/
PriceRegexStep(q, c) ==
    CASE q = "start" -> IF c \in Digits THEN "int" ELSE "fail"
      [] q = "int"   -> IF c \in Digits THEN "int" ELSE IF c = "." THEN "dot" ELSE "fail"
      [] q = "dot"   -> IF c \in Digits THEN "frac1" ELSE "fail"
      [] q = "frac1" -> IF c \in Digits THEN "frac2" ELSE "fail"
      [] OTHER       -> "fail"

RECURSIVE PriceRegexRun(_, _)
PriceRegexRun(q, s) ==
    IF s = <<>> THEN q ELSE PriceRegexRun(PriceRegexStep(q, Head(s)), Tail(s))

\* /^\d+(\.\d{1,2})?$/.test(s)
PriceRegexTest(s) == PriceRegexRun("start", s) \in {"int", "frac1", "frac2"}

\* the longest prefix of s made of decimal digits
RECURSIVE TakeDigits(_)
TakeDigits(s) ==
    IF s = <<>> \/ Head(s) \notin Digits THEN <<>>
    ELSE <<Head(s)>> \o TakeDigits(Tail(s))

\* the natural number a digit string denotes (0 for the empty string)
RECURSIVE DecimalValue(_)
DecimalValue(ds) ==
    IF ds = <<>> THEN 0
    ELSE 10 * DecimalValue(SubSeq(ds, 1, Len(ds) - 1)) + DigitVal(ds[Len(ds)])

NaN == [nan |-> TRUE, neg |-> FALSE, mant |-> 0, scale |-> 0, used |-> 0]

\* The longest prefix of t that is a decimal literal [+-]? digits* (. digits*)?
\* with at least one digit: its value is (-1)^neg * mant / 10^scale and it
\* takes `used` characters.  NaN when t starts with no such literal.  The
\* exponent part and "Infinity" cannot be written with the characters used here.
NumericPrefix(t) ==
    LET signed == t # <<>> /\ Head(t) \in {"+", "-"}
        u  == IF signed THEN Tail(t) ELSE t
        ip == TakeDigits(u)
        r  == SubSeq(u, Len(ip) + 1, Len(u))
        dotted == r # <<>> /\ Head(r) = "."
        fp == IF dotted THEN TakeDigits(Tail(r)) ELSE <<>>
    IN  IF ip = <<>> /\ fp = <<>> THEN NaN
        ELSE [nan |-> FALSE,
              neg |-> signed /\ Head(t) = "-",
              mant |-> DecimalValue(ip \o fp),
              scale |-> Len(fp),
              used |-> (IF signed THEN 1 ELSE 0) + Len(ip) + (IF dotted THEN 1 + Len(fp) ELSE 0)]

\* parseFloat(s): leading white space is skipped, trailing text is ignored
ParseFloat(s) == NumericPrefix(TrimStart(s))

\* Number(s): the whole trimmed string must be a literal; the empty string is 0
NumberOf(s) ==
    LET t == Trim(s)
        v == NumericPrefix(t)
    IN  IF t = <<>> THEN [nan |-> FALSE, neg |-> FALSE, mant |-> 0, scale |-> 0, used |-> 0]
        ELSE IF v.nan \/ v.used # Len(t) THEN NaN ELSE v

\* v <= 0 (false for NaN)
LeqZero(v) == ~v.nan /\ (v.neg \/ v.mant = 0)

\* v > 0 (false for NaN)
GtZero(v) == ~v.nan /\ ~v.neg /\ v.mant > 0

\* variant of PriceCheckFails: parseFloat(price) < 0
PriceCheckFailsAllowsZero(p) ==
    \/ ~Truthy(Trim(p))
    \/ ~PriceRegexTest(p)
    \/ (LeqZero(ParseFloat(p)) /\ ParseFloat(p).mant # 0)

\* line 170: !price.trim() || !/^\d+(\.\d{1,2})?$/.test(price) || parseFloat(price) <= 0
PriceCheckFails(p) ==
    \/ ~Truthy(Trim(p))
    \/ ~PriceRegexTest(p)
    \/ LeqZero(ParseFloat(p))

(***************************************************************************)
(* Seller identity validation: SellItem.jsx lines 119-135                  *)
(***************************************************************************)
EmailLocalChars == Letters \cup Digits \cup {".", "_", "%", "+", "-"}
EmailDomainChars == Letters \cup Digits \cup {".", "-"}

AllIn(s, C) == \A i \in 1..Len(s) : s[i] \in C

\* /^[a-zA-Z0-9._%+-]+@[a-zA-Z0-9.-]+\.[a-zA-Z]{2,}$/.test(s)
EmailRegexTest(s) ==
    \E a \in 1..Len(s) : \E d \in 1..Len(s) :
        /\ a > 1 /\ s[a] = "@" /\ AllIn(SubSeq(s, 1, a - 1), EmailLocalChars)
        /\ d > a + 1 /\ s[d] = "." /\ AllIn(SubSeq(s, a + 1, d - 1), EmailDomainChars)
        /\ Len(s) - d >= 2 /\ AllIn(SubSeq(s, d + 1, Len(s)), Letters)

\* line 120: !name.trim()
NameCheckFails(n) == ~Truthy(Trim(n))

\* line 129: !email.trim() || !regex.test(email)
EmailCheckFails(e) == ~Truthy(Trim(e)) \/ ~EmailRegexTest(e)

\* variant of TextCheckFails: the value is tested without trim()
TextCheckFailsNoTrim(t) == ~Truthy(t)

\* lines 158, 164, 176: !value.trim()
TextCheckFails(t) == ~Truthy(Trim(t))

(***************************************************************************)
(* Values of the form                                                      *)
(***************************************************************************)
NoFile == "null"
Null == "null"
NoUser == "null"
NoURL == <<>>

\* the texts the user types into title, description and location
Texts == {<<>>, <<" ">>, <<"a">>}
\* the prices the user types while the whole form is explored
Prices == {<<>>, <<"0">>, <<"1", "0">>}
\* the texts and prices the user types while publish sequences are followed
FlightTexts == {<<>>, <<"a">>}
FlightPrices == {<<>>, <<"1", "0">>}
\* the names of the files the user picks
Files == {"a.png"}
\* lines 77-98: the labels of conditionButtons
ConditionLabels == {"Excellent", "Very Good", "Good", "Fair", "Poor"}
\* line 50
categories == {"Books", "Furniture", "Electronics", "Stationery", "Bags", "Lab Equipment"}
\* the condition buttons and category options the user picks
PickedConditions == {"Good"}
PickedCategories == {"", "Books"}
\* what the user types into the name and e-mail inputs
TypedNames == {<<>>, <<"b">>}
TypedEmails == {<<"b">>, <<"b", "@", "c", ".", "c", "o">>}

\* the signed-in user and the profile document users/<uid>
UserEmail == <<"u", "@", "x", ".", "e", "s">>
ProfileNames == {<<>>, <<"A", "l">>}
Guest == <<"G", "u", "e", "s", "t">>

\* alert texts, lines 143, 220, 255
MsgImage == "Please upload a product image"
MsgUploadImage == "Error uploading image"
MsgUploadProduct == "Error uploading product"

\* line 208: `products/${Date.now()}-${selectedFile.name}`
StorageKey(t, f) == <<"products", t, f>>

\* getDownloadURL(ref): the durable location of the object stored under key
Location(key) == <<"url", key>>

(***************************************************************************)
(* Initial state: lines 37-62 of SellItem.jsx, lines 6-7 of PrivateRoute   *)
(***************************************************************************)
\* the form with the draft and the seller identity as given, no error shown
\* and nothing submitted
FormState(f, c, t, d, p, l, cat, n, e) ==
    /\ selectedFile = f
    /\ selectedCondition = c
    /\ title = t /\ description = d /\ price = p /\ location = l
    /\ name = n /\ email = e
    /\ selectedCategory = cat
    /\ isEditingName = FALSE /\ isEditingEmail = FALSE
    /\ titleError = "" /\ descriptionError = "" /\ priceError = ""
    /\ locationError = "" /\ conditionError = "" /\ categoryError = ""
    /\ nameError = "" /\ emailError = ""
    /\ mounted = TRUE
    /\ lookups = 0
    /\ subs = <<>>
    /\ clock = 0
    /\ assets = {}
    /\ records = <<>>
    /\ navigations = 0
    /\ alerts = {}

\* lines 37-62: the state the component is constructed with
FormInit == FormState(NoFile, Null, <<>>, <<>>, <<>>, <<>>, "", <<>>, <<>>)

\* the draft filled in with an image and values that pass, price p, seller n, e
ReadyDraft(p, n, e) ==
    \E f \in Files : \E c \in PickedConditions :
        FormState(f, c, <<"a">>, <<"a">>, p, <<"a">>, "Books", n, e)

GateInit ==
    /\ loading = TRUE
    /\ user = NoUser
    /\ subscribed = TRUE
    /\ delivered = <<>>

(***************************************************************************)
(* User events of the form                                                 *)
(***************************************************************************)
\* lines 68-70; the file input is rendered only while no file is selected
\* (264-285), so an attached image stays until the reset of line 249
handleFileChange(f) ==
    /\ mounted /\ selectedFile = NoFile
    /\ selectedFile' = f
    /\ UNCHANGED <<selectedCondition, title, description, price, location, name, email,
                   selectedCategory, isEditingName, isEditingEmail, errorVars,
                   mounted, lookups, subs, clock, assets, records, navigations, alerts>>

\* lines 72-75
handleConditionClick(c) ==
    /\ mounted
    /\ selectedCondition' = c
    /\ conditionError' = ""
    /\ UNCHANGED <<selectedFile, title, description, price, location, name, email,
                   selectedCategory, isEditingName, isEditingEmail,
                   titleError, descriptionError, priceError, locationError,
                   categoryError, nameError, emailError,
                   mounted, lookups, subs, clock, assets, records, navigations, alerts>>

\* line 293: the title input does not clear titleError
setTitle(v) ==
    /\ mounted
    /\ title' = v
    /\ UNCHANGED <<selectedFile, selectedCondition, description, price, location, name, email,
                   selectedCategory, isEditingName, isEditingEmail, errorVars,
                   mounted, lookups, subs, clock, assets, records, navigations, alerts>>

\* lines 300-303
setDescription(v) ==
    /\ mounted
    /\ description' = v
    /\ descriptionError' = ""
    /\ UNCHANGED <<selectedFile, selectedCondition, title, price, location, name, email,
                   selectedCategory, isEditingName, isEditingEmail,
                   titleError, priceError, locationError, conditionError,
                   categoryError, nameError, emailError,
                   mounted, lookups, subs, clock, assets, records, navigations, alerts>>

\* lines 314-317
setSelectedCategory(v) ==
    /\ mounted
    /\ selectedCategory' = v
    /\ categoryError' = ""
    /\ UNCHANGED <<selectedFile, selectedCondition, title, description, price, location,
                   name, email, isEditingName, isEditingEmail,
                   titleError, descriptionError, priceError, locationError,
                   conditionError, nameError, emailError,
                   mounted, lookups, subs, clock, assets, records, navigations, alerts>>

\* lines 357-360
setPrice(v) ==
    /\ mounted
    /\ price' = v
    /\ priceError' = ""
    /\ UNCHANGED <<selectedFile, selectedCondition, title, description, location, name, email,
                   selectedCategory, isEditingName, isEditingEmail,
                   titleError, descriptionError, locationError, conditionError,
                   categoryError, nameError, emailError,
                   mounted, lookups, subs, clock, assets, records, navigations, alerts>>

\* lines 371-374
setLocation(v) ==
    /\ mounted
    /\ location' = v
    /\ locationError' = ""
    /\ UNCHANGED <<selectedFile, selectedCondition, title, description, price, name, email,
                   selectedCategory, isEditingName, isEditingEmail,
                   titleError, descriptionError, priceError, conditionError,
                   categoryError, nameError, emailError,
                   mounted, lookups, subs, clock, assets, records, navigations, alerts>>

\* line 401: the Edit button of the name row
editName ==
    /\ mounted /\ ~isEditingName
    /\ isEditingName' = TRUE
    /\ UNCHANGED <<draftVars, isEditingEmail, errorVars,
                   mounted, lookups, subs, clock, assets, records, navigations, alerts>>

\* line 394: the name input exists only in edit mode
setName(v) ==
    /\ mounted /\ isEditingName
    /\ name' = v
    /\ UNCHANGED <<selectedFile, selectedCondition, title, description, price, location, email,
                   selectedCategory, isEditingName, isEditingEmail, errorVars,
                   mounted, lookups, subs, clock, assets, records, navigations, alerts>>

\* lines 119-126
handleSaveName ==
    /\ mounted /\ isEditingName
    /\ IF NameCheckFails(name)
       THEN /\ nameError' = "Name is required"
            /\ UNCHANGED isEditingName
       ELSE /\ nameError' = ""
            /\ isEditingName' = FALSE
    /\ UNCHANGED <<draftVars, isEditingEmail, fieldErrorVars, emailError,
                   mounted, lookups, subs, clock, assets, records, navigations, alerts>>

\* line 423: the Edit button of the e-mail row
editEmail ==
    /\ mounted /\ ~isEditingEmail
    /\ isEditingEmail' = TRUE
    /\ UNCHANGED <<draftVars, isEditingName, errorVars,
                   mounted, lookups, subs, clock, assets, records, navigations, alerts>>

\* line 416: the e-mail input exists only in edit mode
setEmail(v) ==
    /\ mounted /\ isEditingEmail
    /\ email' = v
    /\ UNCHANGED <<selectedFile, selectedCondition, title, description, price, location, name,
                   selectedCategory, isEditingName, isEditingEmail, errorVars,
                   mounted, lookups, subs, clock, assets, records, navigations, alerts>>

\* lines 128-135
handleSaveEmail ==
    /\ mounted /\ isEditingEmail
    /\ IF EmailCheckFails(email)
       THEN /\ emailError' = "Please enter a valid email"
            /\ UNCHANGED isEditingEmail
       ELSE /\ emailError' = ""
            /\ isEditingEmail' = FALSE
    /\ UNCHANGED <<draftVars, isEditingName, fieldErrorVars, nameError,
                   mounted, lookups, subs, clock, assets, records, navigations, alerts>>

(***************************************************************************)
(* Identity prefill: SellItem.jsx lines 101-117                            *)
(***************************************************************************)
SessionUser == "u1"

\* line 103-106: the observer's callback; a present user starts a profile lookup
authCallback(u) ==
    /\ mounted
    /\ IF u # NoUser
       THEN lookups < MaxLookups /\ lookups' = lookups + 1
       ELSE UNCHANGED lookups
    /\ UNCHANGED <<draftVars, isEditingName, isEditingEmail, errorVars,
                   mounted, subs, clock, assets, records, navigations, alerts>>

\* lines 107-110: the profile document exists; n is its name field
lookupFound(n) ==
    /\ lookups > 0
    /\ lookups' = lookups - 1
    /\ name' = IF Truthy(n) THEN n ELSE UserEmail
    /\ email' = UserEmail
    /\ UNCHANGED <<selectedFile, selectedCondition, title, description, price, location,
                   selectedCategory, isEditingName, isEditingEmail, errorVars,
                   mounted, subs, clock, assets, records, navigations, alerts>>

\* lines 111-113: no profile document
lookupMissing ==
    /\ lookups > 0
    /\ lookups' = lookups - 1
    /\ name' = Guest
    /\ UNCHANGED <<selectedFile, selectedCondition, title, description, price, location, email,
                   selectedCategory, isEditingName, isEditingEmail, errorVars,
                   mounted, subs, clock, assets, records, navigations, alerts>>

\* line 106: getDoc rejects; the async callback ends there
lookupFailed ==
    /\ lookups > 0
    /\ lookups' = lookups - 1
    /\ UNCHANGED <<draftVars, isEditingName, isEditingEmail, errorVars,
                   mounted, subs, clock, assets, records, navigations, alerts>>

(***************************************************************************)
(* Submit: SellItem.jsx lines 137-257                                      *)
(***************************************************************************)
\* the publish sequence line 208-214 starts: the closure of this render's
\* values, the storage key and the state of the upload task
NewSub(t) ==
    [pc |-> "uploading",
     key |-> StorageKey(t, selectedFile),
     downloadURL |-> NoURL,
     title |-> title,
     description |-> description,
     category |-> selectedCategory,
     condition |-> selectedCondition,
     price |-> price,
     location |-> location,
     name |-> name,
     email |-> email]

\* variant of ImageMissing: the image check is left out
ImageMissingNever(f) == FALSE

\* line 142: !selectedFile
ImageMissing(f) == f = NoFile

\* line 182: !selectedCondition
ConditionCheckFails(c) == c = Null

\* line 188: !selectedCategory
CategoryCheckFails(c) == c = ""

\* variant of FieldChecks: validation stops at the first failing check
FieldChecksShortCircuit ==
    LET t == TextCheckFails(title)
        d == ~t /\ TextCheckFails(description)
        p == ~t /\ ~d /\ PriceCheckFails(price)
        l == ~t /\ ~d /\ ~p /\ TextCheckFails(location)
        c == ~t /\ ~d /\ ~p /\ ~l /\ ConditionCheckFails(selectedCondition)
        g == ~t /\ ~d /\ ~p /\ ~l /\ ~c /\ CategoryCheckFails(selectedCategory)
    IN  [title |-> t, description |-> d, price |-> p, location |-> l,
         condition |-> c, category |-> g]

\* lines 155-191: the six field checks; each one runs whatever the others find
FieldChecks ==
    [title       |-> TextCheckFails(title),
     description |-> TextCheckFails(description),
     price       |-> PriceCheckFails(price),
     location    |-> TextCheckFails(location),
     condition   |-> ConditionCheckFails(selectedCondition),
     category    |-> CategoryCheckFails(selectedCategory)]

\* variant of HasError: the two edit-mode checks are left out
HasErrorIgnoresEditing(bad, editingEmail, editingName) ==
    \/ bad.title \/ bad.description \/ bad.price \/ bad.location
    \/ bad.condition \/ bad.category

\* lines 155-201: hasError once the six checks and the two edit-mode checks have run
HasError(bad, editingEmail, editingName) ==
    \/ bad.title \/ bad.description \/ bad.price \/ bad.location
    \/ bad.condition \/ bad.category
    \/ editingEmail \/ editingName

\* lines 137-214
handleSubmit ==
    /\ mounted
    /\ IF ImageMissing(selectedFile)
       THEN /\ alerts' = alerts \cup {<<0, MsgImage>>}
            /\ UNCHANGED <<errorVars, subs, clock>>
       ELSE LET bad == FieldChecks
            IN  /\ titleError' = IF bad.title THEN "Title is required" ELSE ""
                /\ descriptionError' = IF bad.description THEN "Description is required" ELSE ""
                /\ priceError' = IF bad.price
                                 THEN "Enter a valid price (positive number, up to two decimals)"
                                 ELSE ""
                /\ locationError' = IF bad.location THEN "Location is required" ELSE ""
                /\ conditionError' = IF bad.condition
                                     THEN "Please select a condition for the product."
                                     ELSE ""
                /\ categoryError' = IF bad.category
                                    THEN "Please select a category for the product."
                                    ELSE ""
                /\ emailError' = IF isEditingEmail THEN "Please enter a valid email" ELSE emailError
                /\ nameError' = IF isEditingName THEN "Please enter a valid name" ELSE nameError
                /\ IF HasError(bad, isEditingEmail, isEditingName)
                   THEN UNCHANGED <<subs, clock>>
                   ELSE \E t \in clock..MaxClock :
                            /\ clock' = t
                            /\ subs' = Append(subs, NewSub(t))
                /\ UNCHANGED alerts
    /\ UNCHANGED <<draftVars, isEditingName, isEditingEmail,
                   mounted, lookups, assets, records, navigations>>

\* variant of uploadError: the error callback also drops the attached image
uploadErrorDropsImage(i) ==
    /\ i \in 1..Len(subs) /\ subs[i].pc = "uploading"
    /\ subs' = [subs EXCEPT ![i].pc = "uploadFailed"]
    /\ alerts' = alerts \cup {<<i, MsgUploadImage>>}
    /\ selectedFile' = NoFile
    /\ UNCHANGED <<selectedCondition, title, description, price, location, name, email,
                   selectedCategory, isEditingName, isEditingEmail, errorVars,
                   mounted, lookups, clock, assets, records, navigations>>

\* lines 218-221: the upload task reports an error
uploadError(i) ==
    /\ i \in 1..Len(subs) /\ subs[i].pc = "uploading"
    /\ subs' = [subs EXCEPT ![i].pc = "uploadFailed"]
    /\ alerts' = alerts \cup {<<i, MsgUploadImage>>}
    /\ UNCHANGED <<draftVars, isEditingName, isEditingEmail, errorVars,
                   mounted, lookups, clock, assets, records, navigations>>

\* line 222: the upload task completes; the callback calls getDownloadURL (224)
uploadComplete(i) ==
    /\ i \in 1..Len(subs) /\ subs[i].pc = "uploading"
    /\ assets' = assets \cup {subs[i].key}
    /\ subs' = [subs EXCEPT ![i].pc = "resolving"]
    /\ UNCHANGED <<draftVars, isEditingName, isEditingEmail, errorVars,
                   mounted, lookups, clock, records, navigations, alerts>>

\* lines 224-240: getDownloadURL resolves; the callback calls addDoc
urlResolved(i) ==
    /\ i \in 1..Len(subs) /\ subs[i].pc = "resolving"
    /\ subs' = [subs EXCEPT ![i].pc = "creating",
                            ![i].downloadURL = Location(subs[i].key)]
    /\ UNCHANGED <<draftVars, isEditingName, isEditingEmail, errorVars,
                   mounted, lookups, clock, assets, records, navigations, alerts>>

\* variant of urlFailed: the callback swallows the rejection and goes on to addDoc
urlFailedGoesOn(i) ==
    /\ i \in 1..Len(subs) /\ subs[i].pc = "resolving"
    /\ subs' = [subs EXCEPT ![i].pc = "creating"]
    /\ UNCHANGED <<draftVars, isEditingName, isEditingEmail, errorVars,
                   mounted, lookups, clock, assets, records, navigations, alerts>>

\* line 224: getDownloadURL rejects inside the async callback; nothing catches it
urlFailed(i) ==
    /\ i \in 1..Len(subs) /\ subs[i].pc = "resolving"
    /\ subs' = [subs EXCEPT ![i].pc = "resolveFailed"]
    /\ UNCHANGED <<draftVars, isEditingName, isEditingEmail, errorVars,
                   mounted, lookups, clock, assets, records, navigations, alerts>>

\* variant of ProductDoc: the document is composed from the slots as they are
\* when addDoc is called, not from the values of the render that submitted
ProductDocFromDraft(i) ==
    [title |-> title,
     description |-> description,
     category |-> selectedCategory,
     dateOfPurchase |-> <<"/", "/">>,
     condition |-> selectedCondition,
     price |-> NumberOf(price),
     location |-> location,
     isSold |-> FALSE,
     imageUrl |-> subs[i].downloadURL,
     createdAt |-> Len(records) + 1,
     sellerName |-> name,
     sellerEmail |-> email,
     sub |-> i]

\* lines 227-240: the document addDoc sends; `sub` records which publish
\* sequence sent it, createdAt is the server's creation order
ProductDoc(i) ==
    [title |-> subs[i].title,
     description |-> subs[i].description,
     category |-> subs[i].category,
     dateOfPurchase |-> <<"/", "/">>,
     condition |-> subs[i].condition,
     price |-> NumberOf(subs[i].price),
     location |-> subs[i].location,
     isSold |-> FALSE,
     imageUrl |-> subs[i].downloadURL,
     createdAt |-> Len(records) + 1,
     sellerName |-> subs[i].name,
     sellerEmail |-> subs[i].email,
     sub |-> i]

\* variant of docCreated: the document is stored under the key of its image,
\* so a second document for the same image replaces nothing and adds nothing
docCreatedOncePerImage(i) ==
    /\ i \in 1..Len(subs) /\ subs[i].pc = "creating"
    /\ records' = IF \E k \in 1..Len(records) : records[k].imageUrl = subs[i].downloadURL
                  THEN records
                  ELSE Append(records, ProductDoc(i))
    /\ subs' = [subs EXCEPT ![i].pc = "created"]
    /\ UNCHANGED <<draftVars, isEditingName, isEditingEmail, errorVars,
                   mounted, lookups, clock, assets, navigations, alerts>>

\* line 227: the store creates the document
docCreated(i) ==
    /\ i \in 1..Len(subs) /\ subs[i].pc = "creating"
    /\ records' = Append(records, ProductDoc(i))
    /\ subs' = [subs EXCEPT ![i].pc = "created"]
    /\ UNCHANGED <<draftVars, isEditingName, isEditingEmail, errorVars,
                   mounted, lookups, clock, assets, navigations, alerts>>

\* line 227: addDoc rejects inside the async callback; nothing catches it
docFailed(i) ==
    /\ i \in 1..Len(subs) /\ subs[i].pc = "creating"
    /\ subs' = [subs EXCEPT ![i].pc = "createFailed"]
    /\ UNCHANGED <<draftVars, isEditingName, isEditingEmail, errorVars,
                   mounted, lookups, clock, assets, records, navigations, alerts>>

\* variant of submitDone: the reset clears the seller rows with the rest
submitDoneClearsSeller(i) ==
    /\ i \in 1..Len(subs) /\ subs[i].pc = "created"
    /\ subs' = [subs EXCEPT ![i].pc = "done"]
    /\ navigations' = navigations + 1
    /\ mounted' = FALSE
    /\ title' = <<>>
    /\ description' = <<>>
    /\ price' = <<>>
    /\ location' = <<>>
    /\ selectedFile' = NoFile
    /\ selectedCondition' = Null
    /\ name' = <<>>
    /\ email' = <<>>
    /\ UNCHANGED <<selectedCategory, isEditingName, isEditingEmail, errorVars,
                   lookups, clock, assets, records, alerts>>

\* lines 241-250: addDoc has resolved; navigate away and clear the form.
\* The route leaves the form (mounted becomes FALSE: no user event reaches it
\* any more); the setters that follow navigate() are applied to the slots.
submitDone(i) ==
    /\ i \in 1..Len(subs) /\ subs[i].pc = "created"
    /\ subs' = [subs EXCEPT ![i].pc = "done"]
    /\ navigations' = navigations + 1
    /\ mounted' = FALSE
    /\ title' = <<>>
    /\ description' = <<>>
    /\ price' = <<>>
    /\ location' = <<>>
    /\ selectedFile' = NoFile
    /\ selectedCondition' = Null
    /\ UNCHANGED <<name, email, selectedCategory, isEditingName, isEditingEmail, errorVars,
                   lookups, clock, assets, records, alerts>>

(***************************************************************************)
(* The route guard: PrivateRoute.jsx lines 5-21                            *)
(***************************************************************************)
GateUsers == {NoUser, "u1", "u2"}

\* variant of gateCallback: loading is cleared only for a present identity
gateCallbackKeepsLoading(u) ==
    /\ subscribed
    /\ Len(delivered) < MaxDeliveries
    /\ user' = u
    /\ loading' = (loading /\ u = NoUser)
    /\ delivered' = Append(delivered, u)
    /\ UNCHANGED subscribed

\* lines 11-14: the observer delivers an identity
gateCallback(u) ==
    /\ subscribed
    /\ Len(delivered) < MaxDeliveries
    /\ user' = u
    /\ loading' = FALSE
    /\ delivered' = Append(delivered, u)
    /\ UNCHANGED subscribed

\* line 15: teardown
gateUnmount ==
    /\ subscribed
    /\ subscribed' = FALSE
    /\ UNCHANGED <<loading, user, delivered>>

\* lines 18-20
Render ==
    IF loading THEN "nothing"
    ELSE IF user # NoUser THEN "children" ELSE "redirect"

(***************************************************************************)
(* Specifications                                                          *)
(***************************************************************************)
\* the events of the draft fields, typing texts from T and prices from P
DraftEvents(T, P) ==
    \/ \E f \in Files : handleFileChange(f)
    \/ \E c \in PickedConditions : handleConditionClick(c)
    \/ \E v \in T : setTitle(v)
    \/ \E v \in T : setDescription(v)
    \/ \E v \in PickedCategories : setSelectedCategory(v)
    \/ \E v \in P : setPrice(v)
    \/ \E v \in T : setLocation(v)

\* the events of the two seller rows
IdentityEvents ==
    \/ editName
    \/ \E v \in TypedNames : setName(v)
    \/ handleSaveName
    \/ editEmail
    \/ \E v \in TypedEmails : setEmail(v)
    \/ handleSaveEmail

\* the identity prefill
PrefillEvents ==
    \/ \E u \in {NoUser, SessionUser} : authCallback(u)
    \/ \E n \in ProfileNames : lookupFound(n)
    \/ lookupMissing
    \/ lookupFailed

\* the steps of the publish sequences
PublishEvents ==
    \/ \E i \in 1..MaxSubs : uploadError(i)
    \/ \E i \in 1..MaxSubs : uploadComplete(i)
    \/ \E i \in 1..MaxSubs : urlResolved(i)
    \/ \E i \in 1..MaxSubs : urlFailed(i)
    \/ \E i \in 1..MaxSubs : docCreated(i)
    \/ \E i \in 1..MaxSubs : docFailed(i)
    \/ \E i \in 1..MaxSubs : submitDone(i)

\* what the identity prefill leaves in name and email once it has settled:
\* not run, profile found with a name, profile found without one, no profile
SettledIdentities ==
    {<<<<>>, <<>>>>, <<<<"A", "l">>, UserEmail>>, <<Guest, <<>>>>}

\* The form after construction and the identity prefill, with the publish
\* sequences: the user fills in and edits the draft, submits, and the store
\* answers.
Init ==
    /\ \E id \in SettledIdentities :
          FormState(NoFile, Null, <<>>, <<>>, <<>>, <<>>, "", id[1], id[2])
    /\ GateInit

Next ==
    /\ \/ DraftEvents(FlightTexts, FlightPrices)
       \/ handleSubmit /\ Len(subs') <= MaxSubs
       \/ PublishEvents
    /\ UNCHANGED gateVars

Spec == Init /\ [][Next]_vars

\* The draft and its validation: every text and price the user may type.
DraftInit == FormInit /\ GateInit

DraftNext ==
    /\ \/ DraftEvents(Texts, Prices)
       \/ handleSubmit /\ Len(subs') <= MaxSubs
    /\ UNCHANGED gateVars

SpecDraft == DraftInit /\ [][DraftNext]_vars

\* The seller rows: the prefill, the inline edits and submit, on an empty
\* draft and on a draft that passes.  The publish sequences started here are
\* not followed: they do not touch the seller rows before the form is left.
IdentityInit ==
    /\ FormInit \/ ReadyDraft(<<"1", "0">>, <<>>, <<>>)
    /\ GateInit

IdentityNext ==
    /\ \/ IdentityEvents
       \/ PrefillEvents
       \/ handleSubmit /\ Len(subs') <= MaxSubs
    /\ UNCHANGED gateVars

SpecIdentity == IdentityInit /\ [][IdentityNext]_vars

\* Submit pressed again and again on one draft that passes: nothing in
\* handleSubmit looks at the publish sequences already under way.
RaceInit ==
    /\ \E id \in SettledIdentities : ReadyDraft(<<"1", "0">>, id[1], id[2])
    /\ GateInit

RaceEvents ==
    \/ \E i \in 1..MaxRace : uploadError(i)
    \/ \E i \in 1..MaxRace : uploadComplete(i)
    \/ \E i \in 1..MaxRace : urlResolved(i)
    \/ \E i \in 1..MaxRace : urlFailed(i)
    \/ \E i \in 1..MaxRace : docCreated(i)
    \/ \E i \in 1..MaxRace : docFailed(i)
    \/ \E i \in 1..MaxRace : submitDone(i)

RaceNext ==
    /\ \/ handleSubmit /\ Len(subs') <= MaxRace
       \/ RaceEvents
    /\ UNCHANGED gateVars

SpecRace == RaceInit /\ [][RaceNext]_vars

\* The seller rows from construction to the document: the prefill, the inline
\* edits, submit on a draft that passes, and the publish sequence.
SellerInit ==
    /\ ReadyDraft(<<"1", "0">>, <<>>, <<>>)
    /\ GateInit

SellerNext ==
    /\ \/ IdentityEvents
       \/ PrefillEvents
       \/ handleSubmit /\ Len(subs') <= MaxSubs
       \/ PublishEvents
    /\ UNCHANGED gateVars

SpecSeller == SellerInit /\ [][SellerNext]_vars

GateNext ==
    /\ \/ \E u \in GateUsers : gateCallback(u)
       \/ gateUnmount
    /\ UNCHANGED formVars

GateModelInit == FormInit /\ GateInit

SpecGate == GateModelInit /\ [][GateNext]_vars

\* the price strings the validator is run on
PriceChars == {"0", "1", ".", "-", "+", " ", "a"}
PriceExamples == {<<"1", "0">>, <<"1", "0", ".", "5">>, <<"1", "0", ".", "5", "5", "5">>,
                  <<"0">>, <<"0", ".", "0", "0">>, <<"-", "5">>, <<"a", "b", "c">>, <<>>,
                  <<"0", ".", "0", "1">>, <<"1", ".", "0", "0", "0">>}
PriceStrings == UNION {[1..k -> PriceChars] : k \in 0..MaxPriceLen} \cup PriceExamples

\* a draft with an image whose other fields pass, holding any price string
PriceInit ==
    /\ \E p \in PriceStrings : ReadyDraft(p, <<>>, <<>>)
    /\ GateInit

PriceNext == handleSubmit /\ Len(subs') <= MaxSubs /\ UNCHANGED gateVars

SpecPrice == PriceInit /\ [][PriceNext]_vars

(***************************************************************************)
(* Properties                                                              *)
(***************************************************************************)
\* the documents publish sequence i has created
RecordsOf(i) == {k \in 1..Len(records) : records[k].sub = i}

\* C1: every created record comes after the successful upload of the same
\* submit and carries the resolved location of that upload; addDoc is never
\* called before that location is resolved; a publish sequence that has
\* created its record has created exactly one, and no other sequence has any.
C1_UploadThenOneRecord ==
    /\ \A k \in 1..Len(records) :
          LET i == records[k].sub
          IN  /\ i \in 1..Len(subs)
              /\ subs[i].pc \in {"created", "done"}
              /\ subs[i].key \in assets
              /\ records[k].imageUrl = Location(subs[i].key)
    /\ \A i \in 1..Len(subs) :
          /\ subs[i].pc \in {"creating", "createFailed", "created", "done"}
                => /\ subs[i].key \in assets
                   /\ subs[i].downloadURL = Location(subs[i].key)
          /\ Cardinality(RecordsOf(i)) = IF subs[i].pc \in {"created", "done"} THEN 1 ELSE 0

\* a submission has gone through: upload, location, record, navigation
C1_Witness ==
    \E i \in 1..Len(subs) :
        /\ subs[i].pc = "done"
        /\ subs[i].key \in assets
        /\ \E k \in 1..Len(records) :
              records[k].sub = i /\ records[k].imageUrl = Location(subs[i].key)

\* C6: the step that ends a successful submission leaves title, description,
\* price and location empty, image and condition null, and the seller name
\* and e-mail as they were, whatever the draft held at that moment.
C6_ResetKeepsSeller ==
    [][\A i \in 1..Len(subs) :
          (subs[i].pc = "created" /\ i <= Len(subs') /\ subs'[i].pc = "done")
            => /\ title' = <<>> /\ description' = <<>>
               /\ price' = <<>> /\ location' = <<>>
               /\ selectedFile' = NoFile /\ selectedCondition' = Null
               /\ name' = name /\ email' = email]_vars

\* a submission has succeeded after the category was changed in flight (the
\* category is not reset, so the change is still visible), and the seller
\* rows are still populated
C6_Witness ==
    \E i \in 1..Len(subs) :
        /\ subs[i].pc = "done"
        /\ selectedCategory # subs[i].category
        /\ title = <<>> /\ price = <<>> /\ selectedFile = NoFile
        /\ name # <<>> /\ email # <<>>
        /\ name = subs[i].name /\ email = subs[i].email

\* C8 (as claimed): every failed external call of a publish sequence has
\* raised an alert: the upload, the location lookup and the record creation.
C8_EveryFailureAlerts ==
    \A i \in 1..Len(subs) :
        /\ subs[i].pc = "uploadFailed" => <<i, MsgUploadImage>> \in alerts
        /\ subs[i].pc \in {"resolveFailed", "createFailed"}
              => \E m \in {MsgUploadImage, MsgUploadProduct} : <<i, m>> \in alerts

\* C9: the step in which an upload fails creates no record, does not
\* navigate and changes no draft field; a publish sequence whose upload
\* failed never has a record.
C9_UploadFailureKeepsDraft ==
    [][\A i \in 1..Len(subs') :
          subs'[i].pc = "uploadFailed"
            => /\ RecordsOf(i)' = {}
               /\ (i <= Len(subs) /\ subs[i].pc = "uploading")
                     => /\ records' = records
                        /\ navigations' = navigations /\ mounted' = mounted
                        /\ title' = title /\ description' = description
                        /\ selectedCategory' = selectedCategory
                        /\ selectedCondition' = selectedCondition
                        /\ price' = price /\ location' = location
                        /\ selectedFile' = selectedFile
                        /\ name' = name /\ email' = email]_vars

\* an upload has failed and the draft that was submitted is still in the form
C9_Witness ==
    \E i \in 1..Len(subs) :
        /\ subs[i].pc = "uploadFailed"
        /\ <<i, MsgUploadImage>> \in alerts
        /\ mounted /\ selectedFile # NoFile
        /\ title = subs[i].title /\ price = subs[i].price
        /\ records = <<>> /\ navigations = 0

\* the value is empty once leading and trailing blanks are removed
Blank(s) == \A k \in 1..Len(s) : s[k] = " "

\* the steps that start a publish sequence or touch the store
StoreUntouched ==
    /\ subs' = subs /\ assets' = assets /\ records' = records
    /\ navigations' = navigations

\* C2: a submit with no image attached starts no upload, creates no record,
\* does not navigate and leaves the eight error slots as they were, whatever
\* the other fields hold.
C2_NoImageBlocksEverything ==
    [][(handleSubmit /\ selectedFile = NoFile)
          => /\ StoreUntouched
             /\ titleError' = titleError /\ descriptionError' = descriptionError
             /\ priceError' = priceError /\ locationError' = locationError
             /\ conditionError' = conditionError /\ categoryError' = categoryError
             /\ nameError' = nameError /\ emailError' = emailError]_vars

\* submit was pressed with no image on a draft whose title would fail: the
\* image alert is up, no error is shown, nothing was started
C2_Witness ==
    /\ selectedFile = NoFile
    /\ <<0, MsgImage>> \in alerts
    /\ Blank(title) /\ ~Blank(description)
    /\ titleError = "" /\ priceError = ""
    /\ subs = <<>> /\ records = <<>> /\ navigations = 0

\* C4: at a submit with an image attached, each of the title, description
\* and location errors is set iff the field is blank after trim, and a blank
\* one of them blocks the attempt, whatever the other fields hold.
C4_RequiredTexts ==
    [][(handleSubmit /\ selectedFile # NoFile)
          => /\ (titleError' # "") <=> Blank(title)
             /\ (descriptionError' # "") <=> Blank(description)
             /\ (locationError' # "") <=> Blank(location)
             /\ (Blank(title) \/ Blank(description) \/ Blank(location))
                   => StoreUntouched]_vars

\* a submit with an image was blocked by a title of one space alone, every
\* other field passing
C4_Witness ==
    /\ selectedFile # NoFile
    /\ title = <<" ">> /\ titleError = "Title is required"
    /\ ~Blank(description) /\ descriptionError = ""
    /\ ~Blank(location) /\ locationError = ""
    /\ priceError = "" /\ conditionError = "" /\ categoryError = ""
    /\ price = <<"1", "0">> /\ selectedCondition # Null /\ selectedCategory # ""
    /\ subs = <<>>

\* s is one or more decimal digits
IsDigitString(s) == Len(s) >= 1 /\ \A k \in 1..Len(s) : s[k] \in Digits

\* s has the shape digits, or digits "." and one or two digits
MatchesPricePattern(s) ==
    \E n \in 1..Len(s) :
        /\ IsDigitString(SubSeq(s, 1, n))
        /\ \/ n = Len(s)
           \/ /\ n + 1 < Len(s) /\ s[n + 1] = "."
              /\ Len(s) - (n + 1) \in {1, 2}
              /\ IsDigitString(SubSeq(s, n + 2, Len(s)))

\* the numeric value of a string of that shape is above zero: one of its
\* digits is not 0
PositiveNumeral(s) == \E k \in 1..Len(s) : s[k] \in Digits \ {"0"}

\* the price the specification accepts
PriceAcceptable(s) == MatchesPricePattern(s) /\ PositiveNumeral(s)

\* C3: at a submit with an image attached the price error is left empty iff
\* the price matches ^\d+(\.\d{1,2})?$ and its value is above 0; "10" and
\* "10.5" are of that kind, "10.555", "0", "0.00", "-5", "abc" and "" are not.
C3_PriceAcceptedIff ==
    [][(handleSubmit /\ selectedFile # NoFile)
          => /\ (priceError' = "") <=> PriceAcceptable(price)
             /\ PriceAcceptable(<<"1", "0">>)
             /\ PriceAcceptable(<<"1", "0", ".", "5">>)
             /\ \A r \in {<<"1", "0", ".", "5", "5", "5">>, <<"0">>, <<"0", ".", "0", "0">>,
                          <<"-", "5">>, <<"a", "b", "c">>, <<>>} : ~PriceAcceptable(r)]_vars

\* the price "10.5" was submitted and accepted: no price error, upload started
C3_Witness ==
    /\ price = <<"1", "0", ".", "5">>
    /\ priceError = ""
    /\ Len(subs) = 1 /\ subs[1].price = price

\* C5: no publish sequence starts while the seller name or e-mail is in
\* edit mode, even on a draft whose six fields pass; and edit mode is left
\* only by a Save that found the value valid.
C5_EditModeBlocksSubmit ==
    [][/\ (handleSubmit /\ (isEditingName \/ isEditingEmail)) => StoreUntouched
       /\ (isEditingName \/ isEditingEmail) => Len(subs') = Len(subs)
       /\ (isEditingName /\ ~isEditingName')
             => handleSaveName /\ ~Blank(name) /\ nameError' = ""
       /\ (isEditingEmail /\ ~isEditingEmail')
             => handleSaveEmail /\ EmailRegexTest(email) /\ emailError' = ""]_vars

\* submit was blocked on a draft whose six fields pass because the name row
\* was in edit mode (the message is the one only submit sets), the name and
\* the e-mail themselves being valid
C5_Witness ==
    /\ selectedFile # NoFile
    /\ isEditingName /\ ~isEditingEmail
    /\ nameError = "Please enter a valid name"
    /\ ~Blank(name) /\ EmailRegexTest(email)
    /\ ~FieldChecks.title /\ ~FieldChecks.description /\ ~FieldChecks.price
    /\ ~FieldChecks.location /\ ~FieldChecks.condition /\ ~FieldChecks.category
    /\ subs = <<>>

\* C7: the gate renders nothing until the first delivery, and from then on
\* the wrapped content when the latest delivered identity is present and the
\* redirect when it is absent; it never renders nothing again.
C7_GateFollowsLatestIdentity ==
    IF delivered = <<>>
    THEN Render = "nothing"
    ELSE Render = IF delivered[Len(delivered)] # NoUser THEN "children" ELSE "redirect"

\* absent, then present, then absent again: both orders in one behaviour
C7_Witness ==
    /\ Len(delivered) >= 3
    /\ delivered[1] = NoUser /\ delivered[2] # NoUser /\ delivered[3] = NoUser
    /\ Render = "redirect"

\* C10: at a submit with an image attached each of the six error slots is
\* set iff that field's own check fails, whatever the other five do, and one
\* failing check is enough for the store not to be contacted.
C10_ChecksAreIndependent ==
    [][(handleSubmit /\ selectedFile # NoFile)
          => /\ (titleError' # "") <=> Blank(title)
             /\ (descriptionError' # "") <=> Blank(description)
             /\ (priceError' # "") <=> ~PriceAcceptable(price)
             /\ (locationError' # "") <=> Blank(location)
             /\ (conditionError' # "") <=> (selectedCondition \notin ConditionLabels)
             /\ (categoryError' # "") <=> (selectedCategory \notin categories)
             /\ (\/ Blank(title) \/ Blank(description) \/ ~PriceAcceptable(price)
                 \/ Blank(location) \/ selectedCondition \notin ConditionLabels
                 \/ selectedCategory \notin categories)
                   => StoreUntouched]_vars

\* one submit left the first and the last check failing and the four
\* between them passing
C10_Witness ==
    /\ selectedFile # NoFile
    /\ Blank(title) /\ titleError # ""
    /\ selectedCategory = "" /\ categoryError # ""
    /\ ~Blank(description) /\ descriptionError = ""
    /\ PriceAcceptable(price) /\ priceError = ""
    /\ ~Blank(location) /\ locationError = ""
    /\ selectedCondition \in ConditionLabels /\ conditionError = ""
    /\ subs = <<>>

\* the publish sequences that have created their document
Created == {i \in 1..Len(subs) : subs[i].pc \in {"created", "done"}}

\* C11: publish sequences are neither coordinated nor merged.  A submit on
\* a draft that passes, with no seller row in edit mode, starts a new
\* sequence and leaves the ones under way as they are, however many there
\* are; every sequence that gets to its record creates a document of its
\* own, so there are as many documents as such sequences, also when two of
\* them uploaded under the same key.
C11_SequencesAreIndependent ==
    [][/\ (/\ handleSubmit /\ selectedFile # NoFile
           /\ ~Blank(title) /\ ~Blank(description) /\ ~Blank(location)
           /\ PriceAcceptable(price)
           /\ selectedCondition \in ConditionLabels /\ selectedCategory \in categories
           /\ ~isEditingName /\ ~isEditingEmail)
          => /\ Len(subs') = Len(subs) + 1
             /\ subs'[Len(subs')].pc = "uploading"
             /\ \A i \in 1..Len(subs) : subs'[i] = subs[i]
       /\ Len(records') = Cardinality(Created')
       /\ \A i \in Created' : Cardinality(RecordsOf(i)') = 1]_vars

\* one draft, submitted twice before either sequence had its record: two
\* uploads under two keys, and two documents with the same listing, the
\* second submission's document created first
C11_Witness ==
    /\ Len(subs) = 2 /\ Len(records) = 2
    /\ records[1].sub = 2 /\ records[2].sub = 1
    /\ subs[1].key # subs[2].key
    /\ {subs[1].key, subs[2].key} \subseteq assets
    /\ records[1].imageUrl # records[2].imageUrl
    /\ records[1].title = records[2].title
    /\ records[1].description = records[2].description
    /\ records[1].price = records[2].price
    /\ records[1].location = records[2].location
    /\ mounted

\* C12: every document carries values that passed the checks of its submit:
\* title, description and location not blank, a price that is a number above
\* zero, one of the five condition labels and one of the six categories;
\* they are the values of the submitting render, whatever the draft holds
\* when the document is created.
C12_RecordsCarryValidatedValues ==
    \A k \in 1..Len(records) :
        LET r == records[k]
            i == r.sub
        IN  /\ ~Blank(r.title) /\ ~Blank(r.description) /\ ~Blank(r.location)
            /\ ~r.price.nan /\ ~r.price.neg /\ r.price.mant > 0
            /\ r.condition \in ConditionLabels
            /\ r.category \in categories
            /\ r.title = subs[i].title /\ r.description = subs[i].description
            /\ r.location = subs[i].location
            /\ PriceAcceptable(subs[i].price)
            /\ r.condition = subs[i].condition /\ r.category = subs[i].category

\* a document was created after the draft had been emptied in flight: the
\* form is still on screen with a blank title, no price and no category
C12_Witness ==
    /\ mounted
    /\ Len(records) = 1
    /\ Blank(title) /\ price = <<>> /\ selectedCategory = ""
    /\ records[1].title = <<"a">>
    /\ records[1].price.mant = 10
    /\ records[1].category = "Books"

\* C13 (as claimed): every document has a seller name that is not empty and
\* a seller e-mail of the e-mail pattern, whatever the order of the prefill,
\* the inline edits and submit.
C13_RecordsHaveValidSeller ==
    \A k \in 1..Len(records) :
        /\ records[k].sellerName # <<>>
        /\ EmailRegexTest(records[k].sellerEmail)

====
